---- MODULE Spec2Model ----
(***************************************************************************)
(* Model of src/postgres/src/backend/libpq/be-secure.c (build with USE_SSL *)
(* on a non-WIN32 platform).                                               *)
(*                                                                         *)
(* Event masks (waitfor, event.events, the events of slot 0 of FeBeWaitSet)*)
(* are sets of flag names: "mask & FLAG" is FLAG \in mask and a zero mask  *)
(* is {}.  log is the sequence of calls the current secure_read or         *)
(* secure_write call has made to its collaborators, in program order;      *)
(* wouldblocks counts the would-block results the transport gave it and    *)
(* reported is the direction the TLS provider stored in *waitfor during    *)
(* the last attempt ({} when it stored none or was not called).            *)
(*                                                                         *)
(* key is one call of check_ssl_key_file_permissions: what stat() gives    *)
(* for the path, the effective uid, isServerStart, and the outcome.        *)
(*                                                                         *)
(* life is the provider's state as the lifecycle operations see it: ctx    *)
(* is the generation of the global context (0: none), loaded is            *)
(* ssl_loaded_verify_locations, session the connection's TLS session,      *)
(* proc the process; last, arg, calls, tls and ret describe the last       *)
(* operation: its name, its isServerStart argument, the provider calls it  *)
(* made, whether the provider succeeded, and what it returned.             *)
(***************************************************************************)
EXTENDS Integers, Sequences, FiniteSets, TLC

VARIABLES port, pc, op, len, n, errno, waitfor, event, FeBeWaitSet,
          MyLatch, PostmasterAlive, log, wouldblocks, reported, ret, key, life

vars == <<port, pc, op, len, n, errno, waitfor, event, FeBeWaitSet,
          MyLatch, PostmasterAlive, log, wouldblocks, reported, ret, key, life>>

\* ---------------------------------------------------------------- bounds
\* largest length a caller passes to secure_read / secure_write
MaxLen == 2
\* most would-block results the transport reports within one call
MaxWouldBlock == 3
\* largest user id of a file owner or of the server
MaxUid == 2
\* most successful initializations of the global context
MaxInits == 2

\* ------------------------------------------------------------- constants
WL_LATCH_SET == "WL_LATCH_SET"
WL_SOCKET_READABLE == "WL_SOCKET_READABLE"
WL_SOCKET_WRITEABLE == "WL_SOCKET_WRITEABLE"
WL_POSTMASTER_DEATH == "WL_POSTMASTER_DEATH"

EWOULDBLOCK == "EWOULDBLOCK"
EAGAIN == "EAGAIN"
ECONNRESET == "ECONNRESET"

\* values errno can hold; "0" is errno before any failure
ErrnoValues == {"0", EWOULDBLOCK, EAGAIN, ECONNRESET}

\* masks a socket slot of the wait set can be registered for
SocketMasks == {{}, {WL_SOCKET_READABLE}, {WL_SOCKET_WRITEABLE}}

\* masks WaitEventSetWait can report in event.events (timeout -1: at least
\* one event occurred)
EventMasks ==
  (SUBSET {WL_LATCH_SET, WL_SOCKET_READABLE, WL_SOCKET_WRITEABLE,
           WL_POSTMASTER_DEATH}) \ {{}}

\* ------------------------------------------------------------ transports
\* the test of line 162 / 264 on the errno value alone
IsWouldBlock(res, err) == res < 0 /\ err \in {EWOULDBLOCK, EAGAIN}

\* secure_raw_read: recv() on the socket; on failure -1 and errno is set,
\* on success the byte count and errno keeps its old value
secure_raw_read(l, err) ==
  {[n |-> k, errno |-> err] : k \in 0..l}
    \cup {[n |-> -1, errno |-> e] : e \in {EWOULDBLOCK, EAGAIN, ECONNRESET}}

\* secure_raw_write: send() on the socket
secure_raw_write(l, err) ==
  {[n |-> k, errno |-> err] : k \in 0..l}
    \cup {[n |-> -1, errno |-> e] : e \in {EWOULDBLOCK, EAGAIN, ECONNRESET}}

\* be_tls_read: bytesRead | WouldBlock(direction) | Error; writes *waitfor
\* only when it reports WouldBlock
be_tls_read(l, err) ==
  {[n |-> k, errno |-> err, waitfor |-> {}] : k \in 0..l}
    \cup {[n |-> -1, errno |-> EWOULDBLOCK, waitfor |-> {d}] :
            d \in {WL_SOCKET_READABLE, WL_SOCKET_WRITEABLE}}
    \cup {[n |-> -1, errno |-> ECONNRESET, waitfor |-> {}]}

\* be_tls_write: bytesWritten | WouldBlock(direction) | Error
be_tls_write(l, err) ==
  {[n |-> k, errno |-> err, waitfor |-> {}] : k \in 0..l}
    \cup {[n |-> -1, errno |-> EWOULDBLOCK, waitfor |-> {d}] :
            d \in {WL_SOCKET_READABLE, WL_SOCKET_WRITEABLE}}
    \cup {[n |-> -1, errno |-> ECONNRESET, waitfor |-> {}]}

\* a transport may report would-block at most MaxWouldBlock times per call
Allowed(r) == wouldblocks < MaxWouldBlock \/ ~IsWouldBlock(r.n, r.errno)

\* ------------------------------------------------------------ secure_read
\* lines 148-159: route the attempt to the TLS provider or the raw socket; waitfor
\* is 0 before the call and only be_tls_read can store into it
ReadTransport(p, l, err) ==
  IF p.ssl_in_use
    THEN be_tls_read(l, err)
    ELSE {[n |-> r.n, errno |-> r.errno, waitfor |-> {}] :
            r \in secure_raw_read(l, err)}

\* variant: a read always waits for read-readiness
ReadWaitfor_OwnDirection(p, x) == {WL_SOCKET_READABLE}

\* variant: waitfor is not cleared before the attempt
ReadWaitfor_KeepsOld(p, x) ==
  IF p.ssl_in_use
    THEN (IF x.waitfor = {} THEN waitfor ELSE x.waitfor)
    ELSE {WL_SOCKET_READABLE}

\* lines 148-159: waitfor after the attempt x
ReadWaitfor(p, x) ==
  IF p.ssl_in_use THEN x.waitfor ELSE {WL_SOCKET_READABLE}

ReadTransportName(p) ==
  IF p.ssl_in_use THEN "be_tls_read" ELSE "secure_raw_read"

\* variant: EAGAIN is not recognised as would-block
ReadShouldWait_OnlyEWOULDBLOCK(res, noblock, err) ==
  res < 0 /\ ~noblock /\ err = EWOULDBLOCK

\* variant: a short read is retried until the buffer is full
ReadShouldWait_RetryShort(res, noblock, err) ==
  \/ res < 0 /\ ~noblock /\ (err = EWOULDBLOCK \/ err = EAGAIN)
  \/ res >= 0 /\ res < len /\ ~noblock

\* variant: every failure is retried
ReadShouldWait_AnyError(res, noblock, err) == res < 0 /\ ~noblock

\* variant: postmaster death is looked for after every attempt
ReadShouldWait_WhenPostmasterDead(res, noblock, err) ==
  \/ res < 0 /\ ~noblock /\ (err = EWOULDBLOCK \/ err = EAGAIN)
  \/ ~PostmasterAlive

\* line 162
ReadShouldWait(res, noblock, err) ==
  res < 0 /\ ~noblock /\ (err = EWOULDBLOCK \/ err = EAGAIN)

\* variant: the latch is looked at first and hides postmaster death
ReadPostmasterDied_UnlessLatch(ev) ==
  WL_POSTMASTER_DEATH \in ev /\ WL_LATCH_SET \notin ev

\* line 190
ReadPostmasterDied(ev) == WL_POSTMASTER_DEATH \in ev

\* line 196
ReadLatchSet(ev) == WL_LATCH_SET \in ev

\* variant: interrupts are processed before the latch is reset
ReadLatchCalls_Swapped == <<"ProcessClientReadInterrupt(true)", "ResetLatch">>

\* lines 198-199
ReadLatchCalls == <<"ResetLatch", "ProcessClientReadInterrupt(true)">>

\* line 215
ReadReturnCalls == <<"ProcessClientReadInterrupt(false)">>

\* line 217
ReadReturnValue(res) == res

\* variant: entering secure_read switches the port to blocking mode
secure_read_call_ForcesBlocking ==
  /\ pc \in {"idle", "returned"}
  /\ \E l \in 0..MaxLen : len' = l
  /\ op' = "read"
  /\ pc' = "retry"
  /\ n' = 0 /\ waitfor' = {} /\ event' = {} /\ ret' = 0
  /\ log' = <<>> /\ wouldblocks' = 0 /\ reported' = {}
  /\ port' = [port EXCEPT !.noblock = FALSE]
  /\ UNCHANGED <<errno, FeBeWaitSet, MyLatch, PostmasterAlive, key, life>>

\* a caller enters secure_read(port, ptr, l)
secure_read_call ==
  /\ pc \in {"idle", "returned"}
  /\ \E l \in 0..MaxLen : len' = l
  /\ op' = "read"
  /\ pc' = "retry"
  /\ n' = 0 /\ waitfor' = {} /\ event' = {} /\ ret' = 0
  /\ log' = <<>> /\ wouldblocks' = 0 /\ reported' = {}
  /\ UNCHANGED <<port, errno, FeBeWaitSet, MyLatch, PostmasterAlive, key, life>>

\* from the retry label: one attempt, then either register interest and
\* enter WaitEventSetWait (lines 162-171) or process interrupts and return
\* (lines 215-217)
secure_read_attempt ==
  /\ pc = "retry" /\ op = "read"
  /\ \E r \in ReadTransport(port, len, errno) :
       /\ Allowed(r)
       /\ n' = r.n /\ errno' = r.errno /\ waitfor' = ReadWaitfor(port, r)
       /\ reported' = r.waitfor
       /\ wouldblocks' =
            IF IsWouldBlock(r.n, r.errno) THEN wouldblocks + 1 ELSE wouldblocks
       /\ IF ReadShouldWait(r.n, port.noblock, r.errno)
            THEN /\ FeBeWaitSet' = ReadWaitfor(port, r)
                 /\ log' = log \o <<ReadTransportName(port), "ModifyWaitEvent",
                                    "WaitEventSetWait">>
                 /\ pc' = "wait"
                 /\ ret' = ret
            ELSE /\ FeBeWaitSet' = FeBeWaitSet
                 /\ log' = log \o <<ReadTransportName(port)>> \o ReadReturnCalls
                 /\ pc' = "returned"
                 /\ ret' = ReadReturnValue(r.n)
  /\ UNCHANGED <<port, op, len, event, MyLatch, PostmasterAlive, key, life>>

\* what WaitEventSetWait can report: the latch only while it is set,
\* postmaster death only once the postmaster is gone
Occurs(ev) ==
  /\ WL_LATCH_SET \in ev => MyLatch
  /\ WL_POSTMASTER_DEATH \in ev => ~PostmasterAlive

\* WaitEventSetWait returns in secure_read (lines 173-207)
secure_read_wakeup ==
  /\ pc = "wait" /\ op = "read"
  /\ \E ev \in EventMasks :
       /\ Occurs(ev)
       /\ event' = ev
       /\ IF ReadPostmasterDied(ev)
            THEN /\ pc' = "fatal"
                 /\ log' = log \o <<"ereport(FATAL)">>
                 /\ MyLatch' = MyLatch
            ELSE IF ReadLatchSet(ev)
                   THEN /\ MyLatch' = FALSE
                        /\ log' = log \o ReadLatchCalls
                        /\ pc' = "retry"
                   ELSE /\ MyLatch' = MyLatch
                        /\ log' = log
                        /\ pc' = "retry"
  /\ UNCHANGED <<port, op, len, n, errno, waitfor, FeBeWaitSet,
                 PostmasterAlive, wouldblocks, reported, ret, key, life>>

\* ----------------------------------------------------------- secure_write
\* lines 251-262: route the attempt to the TLS provider or the raw socket; waitfor
\* is 0 before the call and only be_tls_write can store into it
WriteTransport(p, l, err) ==
  IF p.ssl_in_use
    THEN be_tls_write(l, err)
    ELSE {[n |-> r.n, errno |-> r.errno, waitfor |-> {}] :
            r \in secure_raw_write(l, err)}

\* lines 251-262: waitfor after the attempt x
WriteWaitfor(p, x) ==
  IF p.ssl_in_use THEN x.waitfor ELSE {WL_SOCKET_WRITEABLE}

WriteTransportName(p) ==
  IF p.ssl_in_use THEN "be_tls_write" ELSE "secure_raw_write"

\* variant: the blocking-mode test is left out
WriteShouldWait_IgnoresNoblock(res, noblock, err) ==
  res < 0 /\ (err = EWOULDBLOCK \/ err = EAGAIN)

\* variant: the blocking-mode test is inverted
WriteShouldWait_InvertedNoblock(res, noblock, err) ==
  res < 0 /\ noblock /\ (err = EWOULDBLOCK \/ err = EAGAIN)

\* variant: every failure is retried
WriteShouldWait_AnyError(res, noblock, err) == res < 0 /\ ~noblock

\* line 264
WriteShouldWait(res, noblock, err) ==
  res < 0 /\ ~noblock /\ (err = EWOULDBLOCK \/ err = EAGAIN)

\* line 276
WritePostmasterDied(ev) == WL_POSTMASTER_DEATH \in ev

\* line 282
WriteLatchSet(ev) == WL_LATCH_SET \in ev

\* lines 284-285
WriteLatchCalls == <<"ResetLatch", "ProcessClientWriteInterrupt(true)">>

\* variant: interrupts are processed as if still blocked
WriteReturnCalls_Blocking == <<"ProcessClientWriteInterrupt(true)">>

\* line 301
WriteReturnCalls == <<"ProcessClientWriteInterrupt(false)">>

\* line 303
WriteReturnValue(res) == res

\* a caller enters secure_write(port, ptr, l)
secure_write_call ==
  /\ pc \in {"idle", "returned"}
  /\ \E l \in 0..MaxLen : len' = l
  /\ op' = "write"
  /\ pc' = "retry"
  /\ n' = 0 /\ waitfor' = {} /\ event' = {} /\ ret' = 0
  /\ log' = <<>> /\ wouldblocks' = 0 /\ reported' = {}
  /\ UNCHANGED <<port, errno, FeBeWaitSet, MyLatch, PostmasterAlive, key, life>>

\* from the retry label (lines 250-273 and 301-303)
secure_write_attempt ==
  /\ pc = "retry" /\ op = "write"
  /\ \E r \in WriteTransport(port, len, errno) :
       /\ Allowed(r)
       /\ n' = r.n /\ errno' = r.errno /\ waitfor' = WriteWaitfor(port, r)
       /\ reported' = r.waitfor
       /\ wouldblocks' =
            IF IsWouldBlock(r.n, r.errno) THEN wouldblocks + 1 ELSE wouldblocks
       /\ IF WriteShouldWait(r.n, port.noblock, r.errno)
            THEN /\ FeBeWaitSet' = WriteWaitfor(port, r)
                 /\ log' = log \o <<WriteTransportName(port), "ModifyWaitEvent",
                                    "WaitEventSetWait">>
                 /\ pc' = "wait"
                 /\ ret' = ret
            ELSE /\ FeBeWaitSet' = FeBeWaitSet
                 /\ log' = log \o <<WriteTransportName(port)>> \o WriteReturnCalls
                 /\ pc' = "returned"
                 /\ ret' = WriteReturnValue(r.n)
  /\ UNCHANGED <<port, op, len, event, MyLatch, PostmasterAlive, key, life>>

\* WaitEventSetWait returns in secure_write (lines 275-293)
secure_write_wakeup ==
  /\ pc = "wait" /\ op = "write"
  /\ \E ev \in EventMasks :
       /\ Occurs(ev)
       /\ event' = ev
       /\ IF WritePostmasterDied(ev)
            THEN /\ pc' = "fatal"
                 /\ log' = log \o <<"ereport(FATAL)">>
                 /\ MyLatch' = MyLatch
            ELSE IF WriteLatchSet(ev)
                   THEN /\ MyLatch' = FALSE
                        /\ log' = log \o WriteLatchCalls
                        /\ pc' = "retry"
                   ELSE /\ MyLatch' = MyLatch
                        /\ log' = log
                        /\ pc' = "retry"
  /\ UNCHANGED <<port, op, len, n, errno, waitfor, FeBeWaitSet,
                 PostmasterAlive, wouldblocks, reported, ret, key, life>>

\* ------------------------------------------------------------ environment
\* a signal handler sets the process latch
SetLatch ==
  /\ pc # "fatal" /\ ~MyLatch
  /\ MyLatch' = TRUE
  /\ UNCHANGED <<port, pc, op, len, n, errno, waitfor, event, FeBeWaitSet,
                 PostmasterAlive, log, wouldblocks, reported, ret, key, life>>

\* the postmaster exits
PostmasterExit ==
  /\ pc # "fatal" /\ PostmasterAlive
  /\ PostmasterAlive' = FALSE
  /\ UNCHANGED <<port, pc, op, len, n, errno, waitfor, event, FeBeWaitSet,
                 MyLatch, log, wouldblocks, reported, ret, key, life>>

\* ----------------------------------------- check_ssl_key_file_permissions
\* permission masks of <sys/stat.h>, as used in lines 374-375
S_IRWXG == 56
S_IRWXO == 7
S_IWGRP == 16
S_IXGRP == 8

\* the nine permission bits of st_mode
PermBits == 0..511

\* a & b on non-negative integers
RECURSIVE BitAnd(_, _)
BitAnd(a, b) ==
  IF a = 0 \/ b = 0
    THEN 0
    ELSE (a % 2) * (b % 2) + 2 * BitAnd(a \div 2, b \div 2)

\* what stat() can give for the path: failure, or the type, owner and
\* permission bits of the file
KeyFiles ==
  [exists : {FALSE}, fmt : {"S_IFREG"}, st_uid : {0}, perm : {0}]
    \cup [exists : {TRUE}, fmt : {"S_IFREG", "S_IFDIR", "S_IFCHR"},
          st_uid : 0..MaxUid, perm : PermBits]

\* variant: violations are always reported at LOG level
KeyLogLevel_AlwaysLog(isServerStart) == "LOG"

\* line 325
KeyLogLevel(isServerStart) == IF isServerStart THEN "FATAL" ELSE "LOG"

\* ereport(loglevel, ...) followed by return false: FATAL does not return
KeyReport(level, msg) ==
  [returns |-> IF level = "FATAL" THEN "noreturn" ELSE "false",
   level |-> level, msg |-> msg, reports |-> <<msg>>]

\* line 337
S_ISREG(f) == f.fmt = "S_IFREG"

\* line 352
KeyForeignOwner(f, euid) == f.st_uid # euid /\ f.st_uid # 0

\* variant: a file of root gets no group-read allowance
KeyGroupOrWorldAccess_SameForRoot(f, euid) ==
  (f.st_uid = euid \/ f.st_uid = 0) /\ BitAnd(f.perm, S_IRWXG + S_IRWXO) # 0

\* lines 374-375
KeyGroupOrWorldAccess(f, euid) ==
  \/ f.st_uid = euid /\ BitAnd(f.perm, S_IRWXG + S_IRWXO) # 0
  \/ f.st_uid = 0 /\ BitAnd(f.perm, S_IWGRP + S_IXGRP + S_IRWXO) # 0

\* variant: the owner is checked before the file type
KeyFileCheck_OwnerFirst(f, euid, isServerStart) ==
  IF ~f.exists
    THEN KeyReport(KeyLogLevel(isServerStart),
                   "could not access private key file")
  ELSE IF KeyForeignOwner(f, euid)
    THEN KeyReport(KeyLogLevel(isServerStart),
                   "must be owned by the database user or root")
  ELSE IF ~S_ISREG(f)
    THEN KeyReport(KeyLogLevel(isServerStart), "is not a regular file")
  ELSE IF KeyGroupOrWorldAccess(f, euid)
    THEN KeyReport(KeyLogLevel(isServerStart), "has group or world access")
  ELSE [returns |-> "true", level |-> "none", msg |-> "none",
        reports |-> <<>>]

\* lines 322-387: the outcome of one call
KeyFileCheck(f, euid, isServerStart) ==
  IF ~f.exists
    THEN KeyReport(KeyLogLevel(isServerStart),
                   "could not access private key file")
  ELSE IF ~S_ISREG(f)
    THEN KeyReport(KeyLogLevel(isServerStart), "is not a regular file")
  ELSE IF KeyForeignOwner(f, euid)
    THEN KeyReport(KeyLogLevel(isServerStart),
                   "must be owned by the database user or root")
  ELSE IF KeyGroupOrWorldAccess(f, euid)
    THEN KeyReport(KeyLogLevel(isServerStart), "has group or world access")
  ELSE [returns |-> "true", level |-> "none", msg |-> "none",
        reports |-> <<>>]

NoKeyOutcome ==
  [returns |-> "none", level |-> "none", msg |-> "none", reports |-> <<>>]

\* the call runs to its return or to the FATAL exit
check_ssl_key_file_permissions ==
  /\ key.pc = "called"
  /\ LET out == KeyFileCheck(key.file, key.euid, key.isServerStart)
     IN key' = [key EXCEPT !.out = out,
                           !.pc = IF out.returns = "noreturn"
                                    THEN "exited" ELSE "returned"]
  /\ UNCHANGED <<port, pc, op, len, n, errno, waitfor, event, FeBeWaitSet,
                 MyLatch, PostmasterAlive, log, wouldblocks, reported, ret,
                 life>>

\* ------------------------------------------------------------- lifecycle
\* be_tls_init(isServerStart): on success a new global context replaces
\* the old one and 0 is returned; on failure FATAL (no return) when
\* isServerStart, else -1 with the old context kept
be_tls_init(isServerStart, l) ==
  {[tls |-> "ok", ret |-> "0", ctx |-> l.ctx + 1, loaded |-> b,
    proc |-> "running"] : b \in {x \in BOOLEAN : l.ctx < MaxInits}}
    \cup {IF isServerStart
            THEN [tls |-> "failed", ret |-> "noreturn", ctx |-> l.ctx,
                  loaded |-> l.loaded, proc |-> "exited"]
            ELSE [tls |-> "failed", ret |-> "-1", ctx |-> l.ctx,
                  loaded |-> l.loaded, proc |-> "running"]}

\* be_tls_open_server(port): the handshake; the connection is encrypted
\* only after it fully succeeds
be_tls_open_server(l) ==
  {[tls |-> "ok", ret |-> "0", session |-> "open", ssl_in_use |-> TRUE] :
     x \in {c \in {l.ctx} : c > 0}}
    \cup {[tls |-> "failed", ret |-> "-1", session |-> "none",
           ssl_in_use |-> FALSE]}

\* variant: the build without USE_SSL, line 79
InitializeReturn_Zero(r) == "0"

\* line 77
InitializeReturn(r) == r

\* lines 73-81
secure_initialize ==
  /\ life.proc = "running"
  /\ \E isServerStart \in BOOLEAN :
       \E r \in be_tls_init(isServerStart, life) :
         life' = [life EXCEPT !.last = "secure_initialize",
                              !.arg = isServerStart,
                              !.calls = <<"be_tls_init">>,
                              !.tls = r.tls,
                              !.ret = IF r.proc = "exited"
                                        THEN "noreturn"
                                        ELSE InitializeReturn(r.ret),
                              !.ctx = r.ctx,
                              !.loaded = r.loaded,
                              !.proc = r.proc]
  /\ UNCHANGED <<port, pc, op, len, n, errno, waitfor, event, FeBeWaitSet,
                 MyLatch, PostmasterAlive, log, wouldblocks, reported, ret,
                 key>>

\* lines 86-92: be_tls_destroy releases the global context, if any
secure_destroy ==
  /\ life.proc = "running"
  /\ life' = [life EXCEPT !.last = "secure_destroy", !.arg = FALSE,
                          !.calls = <<"be_tls_destroy">>, !.tls = "ok",
                          !.ret = "void", !.ctx = 0, !.loaded = FALSE]
  /\ UNCHANGED <<port, pc, op, len, n, errno, waitfor, event, FeBeWaitSet,
                 MyLatch, PostmasterAlive, log, wouldblocks, reported, ret,
                 key>>

\* lines 97-105
secure_loaded_verify_locations ==
  /\ life.proc = "running"
  /\ life' = [life EXCEPT !.last = "secure_loaded_verify_locations",
                          !.arg = FALSE, !.calls = <<>>, !.tls = "none",
                          !.ret = IF life.loaded THEN "true" ELSE "false"]
  /\ UNCHANGED <<port, pc, op, len, n, errno, waitfor, event, FeBeWaitSet,
                 MyLatch, PostmasterAlive, log, wouldblocks, reported, ret,
                 key>>

\* lines 110-124, on a connection that is not yet encrypted
secure_open_server ==
  /\ life.proc = "running" /\ ~port.ssl_in_use /\ life.session = "none"
  /\ \E r \in be_tls_open_server(life) :
       /\ life' = [life EXCEPT !.last = "secure_open_server", !.arg = FALSE,
                               !.calls = <<"be_tls_open_server",
                                           "ereport(DEBUG2)">>,
                               !.tls = r.tls, !.ret = r.ret,
                               !.session = r.session]
       /\ port' = [port EXCEPT !.ssl_in_use = r.ssl_in_use]
  /\ UNCHANGED <<pc, op, len, n, errno, waitfor, event, FeBeWaitSet,
                 MyLatch, PostmasterAlive, log, wouldblocks, reported, ret,
                 key>>

\* variant: the session is shut down whatever the flag says
CloseCallsProvider_Always(p) == TRUE

\* line 133
CloseCallsProvider(p) == p.ssl_in_use

\* lines 129-136; be_tls_close shuts the session down and may clear the
\* connection's encrypted flag
secure_close ==
  /\ life.proc = "running"
  /\ IF CloseCallsProvider(port)
       THEN /\ life' = [life EXCEPT !.last = "secure_close", !.arg = FALSE,
                                    !.calls = <<"be_tls_close">>,
                                    !.tls = "ok", !.ret = "void",
                                    !.session = "closed"]
            /\ \E b \in BOOLEAN : port' = [port EXCEPT !.ssl_in_use = b]
       ELSE /\ life' = [life EXCEPT !.last = "secure_close", !.arg = FALSE,
                                    !.calls = <<>>, !.tls = "none",
                                    !.ret = "void"]
            /\ port' = port
  /\ UNCHANGED <<pc, op, len, n, errno, waitfor, event, FeBeWaitSet,
                 MyLatch, PostmasterAlive, log, wouldblocks, reported, ret,
                 key>>

\* no lifecycle operation has run: no global context, no session
LifeIdle ==
  [ctx |-> 0, loaded |-> FALSE, session |-> "none", proc |-> "running",
   last |-> "none", arg |-> FALSE, calls |-> <<>>, tls |-> "none",
   ret |-> "none"]

\* ---------------------------------------------------------- specification
\* no call of check_ssl_key_file_permissions is under way
KeyIdle ==
  [pc |-> "idle",
   file |-> [exists |-> FALSE, fmt |-> "S_IFREG", st_uid |-> 0, perm |-> 0],
   euid |-> 0, isServerStart |-> FALSE, out |-> NoKeyOutcome]

Init ==
  /\ key = KeyIdle
  /\ life = LifeIdle
  /\ port \in [ssl_in_use : BOOLEAN, noblock : BOOLEAN]
  /\ pc = "idle" /\ op = "none" /\ len = 0
  /\ n = 0 /\ errno \in ErrnoValues /\ waitfor = {} /\ event = {}
  /\ FeBeWaitSet \in SocketMasks
  /\ MyLatch = FALSE /\ PostmasterAlive = TRUE
  /\ log = <<>> /\ wouldblocks = 0 /\ reported = {} /\ ret = 0

Next ==
  \/ secure_read_call
  \/ secure_read_attempt
  \/ secure_read_wakeup
  \/ secure_write_call
  \/ secure_write_attempt
  \/ secure_write_wakeup
  \/ SetLatch
  \/ PostmasterExit

Spec == Init /\ [][Next]_vars

\* the wait returns and the retry runs whenever they can
LiveSpec ==
  /\ Init /\ [][Next]_vars
  /\ WF_vars(secure_read_attempt) /\ WF_vars(secure_read_wakeup)
  /\ WF_vars(secure_write_attempt) /\ WF_vars(secure_write_wakeup)

\* check_ssl_key_file_permissions(ssl_key_file, isServerStart) has been
\* entered by a process of any effective uid, for any file
InitKey ==
  /\ key \in [pc : {"called"}, file : KeyFiles, euid : 0..MaxUid,
               isServerStart : BOOLEAN, out : {NoKeyOutcome}]
  /\ life = LifeIdle
  /\ port = [ssl_in_use |-> FALSE, noblock |-> FALSE]
  /\ pc = "idle" /\ op = "none" /\ len = 0
  /\ n = 0 /\ errno = "0" /\ waitfor = {} /\ event = {}
  /\ FeBeWaitSet = {}
  /\ MyLatch = FALSE /\ PostmasterAlive = TRUE
  /\ log = <<>> /\ wouldblocks = 0 /\ reported = {} /\ ret = 0

NextKey == check_ssl_key_file_permissions

SpecKey == InitKey /\ [][NextKey]_vars

\* a connection has been accepted and is not encrypted
InitLife ==
  /\ life = LifeIdle
  /\ key = KeyIdle
  /\ port \in [ssl_in_use : {FALSE}, noblock : BOOLEAN]
  /\ pc = "idle" /\ op = "none" /\ len = 0
  /\ n = 0 /\ errno = "0" /\ waitfor = {} /\ event = {}
  /\ FeBeWaitSet = {}
  /\ MyLatch = FALSE /\ PostmasterAlive = TRUE
  /\ log = <<>> /\ wouldblocks = 0 /\ reported = {} /\ ret = 0

NextLife ==
  \/ secure_initialize
  \/ secure_destroy
  \/ secure_loaded_verify_locations
  \/ secure_open_server
  \/ secure_close

SpecLife == InitLife /\ [][NextLife]_vars

TypeOK ==
  /\ port \in [ssl_in_use : BOOLEAN, noblock : BOOLEAN]
  /\ pc \in {"idle", "retry", "wait", "returned", "fatal"}
  /\ op \in {"none", "read", "write"}
  /\ len \in 0..MaxLen
  /\ n \in -1..MaxLen
  /\ errno \in ErrnoValues
  /\ waitfor \in SocketMasks
  /\ FeBeWaitSet \in SocketMasks
  /\ event \in EventMasks \cup {{}}
  /\ wouldblocks \in 0..MaxWouldBlock
  /\ reported \in SocketMasks
  /\ ret \in -1..MaxLen

\* ------------------------------------------------------- reading the log
Count(s, x) == Cardinality({i \in DOMAIN s : s[i] = x})

TransportNames ==
  {"be_tls_read", "secure_raw_read", "be_tls_write", "secure_raw_write"}

\* positions of the underlying attempts in the log
AttemptAt(s) == {i \in DOMAIN s : s[i] \in TransportNames}

Attempts == Cardinality(AttemptAt(log))
Waits == Count(log, "WaitEventSetWait")

\* the last k entries of the log
LastK(s, k) == SubSeq(s, Len(s) - k + 1, Len(s))
EndsWith(s, t) == Len(s) >= Len(t) /\ LastK(s, Len(t)) = t

InterruptCall(blocked) ==
  IF op = "read"
    THEN (IF blocked THEN "ProcessClientReadInterrupt(true)"
                     ELSE "ProcessClientReadInterrupt(false)")
    ELSE (IF blocked THEN "ProcessClientWriteInterrupt(true)"
                     ELSE "ProcessClientWriteInterrupt(false)")

OwnDirection ==
  IF op = "read" THEN {WL_SOCKET_READABLE} ELSE {WL_SOCKET_WRITEABLE}

\* a call of secure_read / secure_write has been entered
InCall == pc \in {"retry", "wait", "returned", "fatal"}

\* ----------------------------------------------------------------- claims

\* C1: in blocking mode (noblock false) a call of secure_read/secure_write
\* that has returned did not return a would-block result: its last attempt
\* did not fail with EWOULDBLOCK/EAGAIN.
C1_BlockingNeverReturnsWouldBlock ==
  pc = "returned" /\ ~port.noblock =>
    ~IsWouldBlock(n, errno) /\ ~IsWouldBlock(ret, errno)

\* a blocking call that met would-block results has returned
C1_Witness == pc = "returned" /\ ~port.noblock /\ wouldblocks >= 1

\* C2: in non-blocking mode, once an attempt has reported would-block the
\* call has returned that result after this single attempt, with no
\* ModifyWaitEvent, no WaitEventSetWait and no ResetLatch.
C2_NonBlockingReturnsAtOnce ==
  InCall /\ port.noblock /\ wouldblocks >= 1 =>
    /\ pc = "returned"
    /\ ret = n /\ IsWouldBlock(ret, errno)
    /\ Attempts = 1
    /\ Count(log, "ModifyWaitEvent") = 0
    /\ Count(log, "WaitEventSetWait") = 0
    /\ Count(log, "ResetLatch") = 0

\* a non-blocking write has returned would-block
C2_Witness ==
  pc = "returned" /\ port.noblock /\ op = "write" /\ IsWouldBlock(ret, errno)

\* C3: when the last attempt reported would-block and the connection is in
\* blocking mode, the call eventually returns a transfer count or a
\* non-retryable error, or the process ends with FATAL (every wait returns,
\* and the transport reports would-block at most MaxWouldBlock times).
C3_BlockingEventuallyCompletes ==
  (~port.noblock /\ InCall /\ IsWouldBlock(n, errno))
    ~> (pc = "fatal" \/ (pc = "returned" /\ ~IsWouldBlock(ret, errno)))

\* a blocking call returned all requested bytes after MaxWouldBlock waits
C3_Witness ==
  /\ pc = "returned" /\ ~port.noblock
  /\ wouldblocks = MaxWouldBlock /\ Waits = MaxWouldBlock
  /\ len > 0 /\ ret = len

\* C4: when a wait ended with WL_POSTMASTER_DEATH the process has terminated
\* with FATAL right after that wait: the call did not return, and nothing
\* (no attempt, no latch reset, no interrupt processing) follows the wait in
\* the log but the FATAL report; also when WL_LATCH_SET was reported with it.
C4_PostmasterDeathIsFatal ==
  WL_POSTMASTER_DEATH \in event =>
    /\ pc = "fatal"
    /\ EndsWith(log, <<"WaitEventSetWait", "ereport(FATAL)">>)
    /\ Count(log, "ereport(FATAL)") = 1
    /\ (WL_LATCH_SET \in event => MyLatch)

\* postmaster death and the latch were reported in one event
C4_Witness ==
  /\ WL_POSTMASTER_DEATH \in event /\ WL_LATCH_SET \in event
  /\ pc = "fatal"

\* C5: in blocking mode waits and attempts alternate (exactly one wait
\* between two consecutive attempts), and a call that has returned after
\* the transport reported would-block k times made k+1 attempts and k
\* waits and returned the result of the last attempt.
C5_AttemptsAndWaits ==
  InCall /\ ~port.noblock =>
    /\ \A i, j \in AttemptAt(log) :
         (i < j /\ ~\E m \in AttemptAt(log) : i < m /\ m < j) =>
           Cardinality({m \in i..j : log[m] = "WaitEventSetWait"}) = 1
    /\ Waits <= Attempts /\ Attempts <= Waits + 1
    /\ pc = "returned" =>
         /\ Attempts = wouldblocks + 1
         /\ Waits = wouldblocks
         /\ ret = n

\* would-block twice, then success: two waits, the byte count returned
C5_Witness ==
  /\ pc = "returned" /\ ~port.noblock /\ PostmasterAlive
  /\ wouldblocks = 2 /\ Waits = 2 /\ Attempts = 3
  /\ ret > 0

\* C6: after a wait that ended with WL_LATCH_SET (postmaster alive) the
\* call is back at the retry, having reset the latch and then run
\* ProcessClient{Read,Write}Interrupt(true), once, right after the wait;
\* after a wait that ended with socket readiness only, neither was done;
\* every ResetLatch in the log follows a wait and is followed by the
\* blocking-aware interrupt processing and then by the next attempt.
C6_WakeHandling ==
  /\ pc = "retry" /\ Len(log) > 0 =>
       IF WL_LATCH_SET \in event
         THEN EndsWith(log, <<"WaitEventSetWait", "ResetLatch",
                              InterruptCall(TRUE)>>)
         ELSE EndsWith(log, <<"WaitEventSetWait">>)
  /\ \A i \in DOMAIN log :
       /\ log[i] = "ResetLatch" =>
            /\ i > 1 /\ log[i - 1] = "WaitEventSetWait"
            /\ i < Len(log) /\ log[i + 1] = InterruptCall(TRUE)
       /\ log[i] = InterruptCall(TRUE) =>
            /\ i > 1 /\ log[i - 1] = "ResetLatch"
            /\ i < Len(log) => log[i + 1] \in TransportNames
  /\ Count(log, "ResetLatch") = Count(log, InterruptCall(TRUE))
  /\ Count(log, "ResetLatch") <= Waits

\* a wait ended with the latch set and the socket ready
C6_Witness ==
  /\ pc = "retry" /\ op = "read"
  /\ event = {WL_LATCH_SET, WL_SOCKET_READABLE}
  /\ ~MyLatch

\* C7: a call that has returned ran ProcessClient{Read,Write}Interrupt(false)
\* exactly once, as its last step right after its last attempt; a call that
\* has not returned has not run it.
C7_InterruptsBeforeReturn ==
  InCall =>
    IF pc = "returned"
      THEN /\ Count(log, InterruptCall(FALSE)) = 1
           /\ Len(log) >= 2
           /\ log[Len(log)] = InterruptCall(FALSE)
           /\ log[Len(log) - 1] \in TransportNames
      ELSE Count(log, InterruptCall(FALSE)) = 0

\* a blocking write returned a non-retryable error after a wait
C7_Witness ==
  /\ pc = "returned" /\ op = "write" /\ ~port.noblock
  /\ ret < 0 /\ errno = ECONNRESET /\ Waits >= 1

\* C8: the direction a wait is registered for is the call's own direction
\* on an unencrypted connection and the direction the TLS provider reported
\* for the failed attempt on an encrypted one.
C8_RegisteredDirection ==
  pc = "wait" =>
    FeBeWaitSet = (IF port.ssl_in_use THEN reported ELSE OwnDirection)

\* an encrypted read waits for write-readiness
C8_Witness ==
  /\ pc = "wait" /\ op = "read" /\ port.ssl_in_use
  /\ reported = {WL_SOCKET_WRITEABLE}
  /\ FeBeWaitSet = {WL_SOCKET_WRITEABLE}

\* C9: once an attempt has transferred n >= 0 bytes the call has returned
\* exactly n, with 0 <= n <= len, right after that attempt (no wait, no
\* further attempt); a call that has returned returns its last attempt's
\* result.
C9_ReturnsLastResult ==
  /\ pc = "returned" => ret = n /\ ret >= -1 /\ ret <= len
  /\ InCall /\ Attempts >= 1 /\ n >= 0 =>
       /\ pc = "returned"
       /\ ret = n
       /\ EndsWith(log, <<log[Len(log) - 1], InterruptCall(FALSE)>>)
       /\ log[Len(log) - 1] \in TransportNames

\* a blocking read returned a partial transfer
C9_Witness ==
  /\ pc = "returned" /\ op = "read" /\ ~port.noblock
  /\ len = 2 /\ ret = 1 /\ Attempts = 1

\* --------------------------------------------- claims about the key file
KeyDone == key.pc \in {"returned", "exited"}

\* the call failed with the diagnostic msg (returned false, or FATAL)
KeyFailedWith(msg) ==
  key.out.returns \in {"false", "noreturn"} /\ key.out.msg = msg

\* a regular file that stat() can reach
KeyRegular == key.file.exists /\ key.file.fmt = "S_IFREG"

\* no permission bit outside 0640 is set (octal 0777 is 511, 0640 is 416)
AtMost0640 == BitAnd(key.file.perm, 511 - 416) = 0

\* the parts of C10 that hold for every server identity
C10_Common ==
  KeyDone =>
    /\ (KeyRegular /\ key.file.st_uid = key.euid
          /\ BitAnd(key.file.perm, S_IRWXG + S_IRWXO) = 0) => key.out.returns = "true"
    /\ (KeyRegular /\ key.file.st_uid = key.euid
          /\ BitAnd(key.file.perm, S_IRWXG + S_IRWXO) # 0) =>
         KeyFailedWith("has group or world access")
    /\ (key.file.exists /\ key.file.fmt = "S_IFDIR") =>
         KeyFailedWith("is not a regular file")

\* C10 as stated: for every server identity and permission mode, a
\* server-owned regular file without group/other bits is accepted, a
\* server-owned one with any group/other bit is rejected with "group or
\* world access", a regular file of uid 0 with mode 0640 or less is
\* accepted, and a directory is rejected with "not a regular file".
C10_Original ==
  /\ C10_Common
  /\ KeyDone /\ KeyRegular /\ key.file.st_uid = 0 /\ AtMost0640 =>
       key.out.returns = "true"

\* C10 (amended): as stated, but a regular file of uid 0 with mode 0640 or
\* less is accepted when the server's own identity is not uid 0; for a
\* server of uid 0 such a file is server-owned and the 0600 rule applies.
C10_KeyFilePolicy ==
  /\ C10_Common
  /\ KeyDone /\ KeyRegular /\ key.file.st_uid = 0 /\ AtMost0640
       /\ key.euid # 0 =>
       key.out.returns = "true"

\* a file of root with mode 0640 was accepted by a server of another uid
C10_Witness ==
  /\ key.pc = "returned" /\ KeyRegular
  /\ key.file.st_uid = 0 /\ key.euid # 0 /\ key.file.perm = 416
  /\ key.out.returns = "true"


\* the file breaks the key file policy: not stat-able, not a regular file,
\* owned by neither the server nor uid 0, or open to group/others beyond
\* what its owner allows
KeyViolates ==
  \/ ~key.file.exists
  \/ key.file.fmt # "S_IFREG"
  \/ key.file.st_uid \notin {key.euid, 0}
  \/ key.file.st_uid = key.euid
       /\ BitAnd(key.file.perm, S_IRWXG + S_IRWXO) # 0
  \/ key.file.st_uid = 0
       /\ BitAnd(key.file.perm, S_IWGRP + S_IXGRP + S_IRWXO) # 0

\* the state outside the call and the call's own inputs
KeyFrame ==
  <<port, pc, op, len, n, errno, waitfor, event, FeBeWaitSet, MyLatch,
    PostmasterAlive, log, wouldblocks, reported, ret, life,
    key.file, key.euid, key.isServerStart>>

C11_Outcome ==
  KeyDone =>
    IF key.isServerStart
      THEN /\ key.out.returns # "false"
           /\ key.out.returns = "true" => ~KeyViolates
           /\ KeyViolates =>
                /\ key.pc = "exited"
                /\ key.out.returns = "noreturn"
                /\ key.out.level = "FATAL"
      ELSE /\ key.pc = "returned"
           /\ KeyViolates =>
                /\ key.out.returns = "false"
                /\ key.out.level = "LOG"

\* C11: with isServerStart true check_ssl_key_file_permissions ends the
\* process with FATAL on any violation (it returns neither false nor, for a
\* violating file, true); with isServerStart false it reports the violation
\* at LOG level and returns false; the call changes nothing but its outcome.
C11_StrictAbortsElseReturnsFalse ==
  []C11_Outcome /\ [][KeyFrame' = KeyFrame]_vars

\* a strict call ended the process over a file of a foreign owner
C11_Witness ==
  /\ key.pc = "exited" /\ key.isServerStart
  /\ key.out.level = "FATAL"
  /\ key.out.msg = "must be owned by the database user or root"

\* the diagnostic of the first check the file fails, in the order
\* stat-able, regular file, owner, permission bits
KeyFirstViolation ==
  IF ~key.file.exists THEN "could not access private key file"
  ELSE IF key.file.fmt # "S_IFREG" THEN "is not a regular file"
  ELSE IF key.file.st_uid \notin {key.euid, 0}
    THEN "must be owned by the database user or root"
  ELSE "has group or world access"

\* C12: a failing call reports exactly one diagnostic, that of the first
\* violated check in the order stat-able, regular file, owner, permission
\* bits; a regular file owned by neither the server nor uid 0 is rejected
\* with the ownership diagnostic whatever its permission bits.
C12_FirstViolationOnly ==
  KeyDone =>
    /\ key.out.returns # "true" =>
         /\ KeyViolates
         /\ key.out.reports = <<KeyFirstViolation>>
         /\ key.out.msg = KeyFirstViolation
    /\ key.out.returns = "true" => key.out.reports = <<>>
    /\ (KeyRegular /\ key.file.st_uid \notin {key.euid, 0}) =>
         KeyFailedWith("must be owned by the database user or root")

\* a device file of a foreign owner, open to all, reported only its type
C12_Witness ==
  /\ key.pc = "returned" /\ key.file.exists
  /\ key.file.fmt = "S_IFCHR" /\ key.file.st_uid \notin {key.euid, 0}
  /\ key.file.perm = 511
  /\ key.out.reports = <<"is not a regular file">>


\* the transport the connection's encrypted flag selects for the call
RoutedTo ==
  IF port.ssl_in_use
    THEN (IF op = "read" THEN "be_tls_read" ELSE "be_tls_write")
    ELSE (IF op = "read" THEN "secure_raw_read" ELSE "secure_raw_write")

\* C13: no step of secure_read/secure_write (entry, attempt, wait, retry,
\* return) changes port.ssl_in_use or port.noblock, and every attempt of a
\* call goes to the one transport the encrypted flag selects.
C13_PortFlagsUnchanged ==
  /\ [][port' = port]_vars
  /\ [](\A i \in AttemptAt(log) : log[i] = RoutedTo)

\* an encrypted blocking read made three attempts, all through be_tls_read
C13_Witness ==
  /\ pc = "returned" /\ op = "read"
  /\ port.ssl_in_use /\ ~port.noblock
  /\ Attempts = 3 /\ Count(log, "be_tls_read") = 3


\* ------------------------------------------- claims about the lifecycle

\* C14: a step of secure_close calls be_tls_close, shutting the session
\* down, exactly when port.ssl_in_use is set; on a connection whose flag is
\* not set it calls no provider operation and changes neither the
\* connection nor the provider's state.
C14_CloseIffEncrypted ==
  [][life'.last = "secure_close" =>
       IF port.ssl_in_use
         THEN /\ life'.calls = <<"be_tls_close">>
              /\ life'.session = "closed"
         ELSE /\ life'.calls = <<>>
              /\ port' = port
              /\ life'.session = life.session
              /\ life'.ctx = life.ctx
              /\ life'.loaded = life.loaded
              /\ life'.proc = life.proc]_vars

\* secure_close has shut down the session of an encrypted connection
C14_Witness ==
  /\ life.last = "secure_close"
  /\ life.calls = <<"be_tls_close">>
  /\ life.session = "closed"

\* the outcome of the last secure_initialize
C15_Outcome ==
  life.last = "secure_initialize" =>
    /\ life.tls = "ok" => life.ret = "0" /\ life.proc = "running"
    /\ (life.tls = "failed" /\ life.arg) =>
         life.proc = "exited" /\ life.ret = "noreturn"
    /\ (life.tls = "failed" /\ ~life.arg) =>
         life.proc = "running" /\ life.ret = "-1"

\* C15: secure_initialize returns 0 on success; when initialization fails
\* with isServerStart true the process ends there (no return); when it
\* fails with isServerStart false it returns -1 and the global context,
\* the trust-store flag, the session and the connection stay as they were.
C15_InitializeOutcome ==
  /\ []C15_Outcome
  /\ [][(life'.last = "secure_initialize" /\ life'.tls = "failed") =>
          /\ life'.ctx = life.ctx
          /\ life'.loaded = life.loaded
          /\ life'.session = life.session
          /\ port' = port]_vars

\* a reload failed while a context and an open session exist
C15_Witness ==
  /\ life.last = "secure_initialize" /\ life.tls = "failed" /\ ~life.arg
  /\ life.ret = "-1" /\ life.ctx = 1 /\ life.session = "open"
  /\ port.ssl_in_use


\* ------------------------------------- further claims about read and write

\* C16: once an attempt has failed with a non-retryable error (n < 0, errno
\* neither EWOULDBLOCK nor EAGAIN) the call has returned that error right
\* after this attempt, in blocking and in non-blocking mode: nothing was
\* registered and no wait entered for it.
C16_HardErrorReturnsAtOnce ==
  InCall /\ Attempts >= 1 /\ n < 0 /\ errno \notin {EWOULDBLOCK, EAGAIN} =>
    /\ pc = "returned"
    /\ ret = n
    /\ EndsWith(log, <<RoutedTo, InterruptCall(FALSE)>>)
    /\ Attempts = wouldblocks + 1
    /\ Count(log, "ModifyWaitEvent") = Attempts - 1
    /\ Waits = Attempts - 1

\* a blocking read failed with ECONNRESET on its first attempt
C16_Witness ==
  /\ pc = "returned" /\ op = "read" /\ ~port.noblock
  /\ ret = -1 /\ errno = ECONNRESET
  /\ log = <<RoutedTo, "ProcessClientReadInterrupt(false)">>

\* C17: every wait is preceded by exactly one ModifyWaitEvent, made after
\* the failed attempt and right before the wait; the direction registered
\* is not empty and is the waitfor of that attempt, which every attempt
\* sets anew (the call's own direction on a raw connection, what the
\* provider stored, or nothing, on an encrypted one).
C17_OneFreshRegistrationPerWait ==
  /\ \A i \in DOMAIN log :
       /\ log[i] = "WaitEventSetWait" =>
            /\ i > 2
            /\ log[i - 1] = "ModifyWaitEvent"
            /\ log[i - 2] \in TransportNames
       /\ log[i] = "ModifyWaitEvent" =>
            /\ i < Len(log)
            /\ log[i + 1] = "WaitEventSetWait"
  /\ Count(log, "ModifyWaitEvent") = Waits
  /\ pc = "wait" => FeBeWaitSet # {} /\ FeBeWaitSet = waitfor
  /\ InCall /\ Attempts >= 1 =>
       waitfor = (IF port.ssl_in_use THEN reported ELSE OwnDirection)

\* an encrypted write waits for read-readiness after having waited for
\* write-readiness before
C17_Witness ==
  /\ pc = "wait" /\ op = "write" /\ port.ssl_in_use
  /\ Waits = 2
  /\ FeBeWaitSet = {WL_SOCKET_READABLE}
  /\ WL_SOCKET_WRITEABLE \in event

\* C18: postmaster death is looked at only after a wait: a call whose
\* attempt did not report would-block, or that runs in non-blocking mode,
\* has returned after its first attempt whether or not the postmaster is
\* alive, and the process ends with FATAL only right after a wait that
\* reported WL_POSTMASTER_DEATH.
C18_DeathSeenOnlyAfterWait ==
  /\ InCall /\ Attempts >= 1 /\ (port.noblock \/ wouldblocks = 0) =>
       pc = "returned" /\ Attempts = 1 /\ Waits = 0
  /\ pc = "fatal" =>
       /\ ~PostmasterAlive
       /\ ~port.noblock /\ wouldblocks >= 1
       /\ WL_POSTMASTER_DEATH \in event
       /\ EndsWith(log, <<"WaitEventSetWait", "ereport(FATAL)">>)

\* a call returned all its bytes with the postmaster gone
C18_Witness ==
  /\ pc = "returned" /\ ~PostmasterAlive
  /\ ~port.noblock /\ wouldblocks = 0
  /\ len > 0 /\ ret = len

====
